---- MODULE Spec2Model ----
(***************************************************************************)
(* CIFAR-10 WRN (Gluon and PyTorch) and CIFAR-10 ResNeXt (PyTorch): the   *)
(* model classes, the depth/width-keyed factories, the named constructors *)
(* and the self-tests (parameter count, output shape).                    *)
(*                                                                         *)
(* A behaviour is one call of a named constructor or of a factory (Spec),  *)
(* or of a model class itself (SpecClass), followed (when a network is    *)
(* returned) by the self-test's parameter count and forward pass on a     *)
(* (1, 3, 32, 32) batch.                                                  *)
(***************************************************************************)
EXTENDS Integers, Sequences, FiniteSets, TLC

VARIABLES
    pc,           \* position in the call
    entry,        \* "none" | "named" | "factory" | "class": what was called
    ctor,         \* the named constructor called ("" when none)
    impl,         \* the source file: "gluon_wrn" | "pytorch_wrn" | "pytorch_resnext"
    args,         \* the factory's arguments
    cargs,        \* the model class's arguments, when the class itself is called
    net,          \* the factory's local net (NoNet until the class has built it)
    store_calls,  \* invocations of the model store, in order
    loaded,       \* the network the pretrained weights were loaded into
    result,       \* "none" | "net" | "AssertionError" | "ValueError"
    returned,     \* the network handed to the caller (NoNet when none)
    weight_count, \* the self-test's count of trainable parameters (-1: not counted)
    fwd           \* the self-test's forward pass (NoFwd: not run)

vars == <<pc, entry, ctor, impl, args, cargs, net, store_calls, loaded, result, returned,
          weight_count, fwd>>

----------------------------------------------------------------------------
(* Bounds of the inputs drawn by the calls. *)

MaxBlocks == 22

MaxNegBlocks == 8

MaxWidthFactor == 3

MaxCardinality == 2

MaxBottleneckWidth == 2

MaxStages == 3

MaxUnits == 2

----------------------------------------------------------------------------
(* Python values and operators. *)

None == "<None>"

\* Python's % with a positive modulus: the result is in 0..m-1 for every sign of a.
PyMod(a, m) == a % m

\* Python's //: floor division.
PyFloorDiv(a, m) == a \div m

\* Python's [x] * n: the empty list when n <= 0.
ListRepeat(x, n) == IF n <= 0 THEN <<>> ELSE [k \in 1..n |-> x]

\* Mutant: only None counts as a missing model name.
NameMissingNoneOnly(model_name) == model_name = None

\* Python's truth value of a model name: None and "" are falsy.
NameMissing(model_name) == (model_name = None) \/ (model_name = "")

----------------------------------------------------------------------------
(* Layers. Every layer is a record of the same fields; the ones a kind     *)
(* does not use keep their defaults.                                       *)

NoLayer == [kind |-> "none", name |-> "", in_channels |-> 0, out_channels |-> 0,
            stride |-> 1, affine |-> TRUE, activate |-> TRUE, cardinality |-> 0,
            bottleneck_width |-> 0, kernel_size |-> 0, units |-> <<>>]

NoNet == [features |-> <<>>, output |-> NoLayer, built |-> FALSE]

Layer(kind, name, cin, cout, stride) ==
    [NoLayer EXCEPT !.kind = kind, !.name = name, !.in_channels = cin,
                    !.out_channels = cout, !.stride = stride]

----------------------------------------------------------------------------
(* The layer blocks of the shared model library (common, preresnet,        *)
(* resnext) and the frameworks' layers: what each holds as trainable       *)
(* parameters and what it does to the shape of a batch.                    *)

\* A convolution without bias: weight of shape (out, in / groups, k, k).
Conv2dParams(cin, cout, k, groups) == cout * (cin \div groups) * k * k

\* A batch-norm: gamma and beta, trainable only when affine (center, scale).
BatchNormParams(c, affine) == IF affine THEN 2 * c ELSE 0

\* A dense layer: weight (out, in) and bias (out).
DenseParams(cin, cout) == cin * cout + cout

\* conv3x3_block / conv1x1_block: convolution without bias, then batch-norm.
ConvBlockParams(cin, cout, k, groups) ==
    Conv2dParams(cin, cout, k, groups) + BatchNormParams(cout, TRUE)

\* A unit has a convolution on its identity branch when it changes the shape.
ResizeIdentity(u) == (u.in_channels # u.out_channels) \/ (u.stride # 1)

\* PreResUnit, bottleneck=False: two pre-activated 3x3 convolutions
\* (batch-norm, ReLU, convolution) and a bare 1x1 identity convolution.
PreResUnitParams(u) ==
    BatchNormParams(u.in_channels, TRUE)
    + Conv2dParams(u.in_channels, u.out_channels, 3, 1)
    + BatchNormParams(u.out_channels, TRUE)
    + Conv2dParams(u.out_channels, u.out_channels, 3, 1)
    + (IF ResizeIdentity(u) THEN Conv2dParams(u.in_channels, u.out_channels, 1, 1) ELSE 0)

\* ResNeXtBottleneck's group width: cardinality * floor(mid * (bottleneck_width / 64)).
ResNeXtGroupWidth(u) ==
    u.cardinality * PyFloorDiv(PyFloorDiv(u.out_channels, 4) * u.bottleneck_width, 64)

\* ResNeXtUnit: 1x1 block, grouped 3x3 block, 1x1 block, and a 1x1 block on
\* the identity branch.
ResNeXtUnitParams(u) ==
    LET gw == ResNeXtGroupWidth(u)
    IN  ConvBlockParams(u.in_channels, gw, 1, 1)
        + ConvBlockParams(gw, gw, 3, u.cardinality)
        + ConvBlockParams(gw, u.out_channels, 1, 1)
        + (IF ResizeIdentity(u) THEN ConvBlockParams(u.in_channels, u.out_channels, 1, 1) ELSE 0)

RECURSIVE LayerParams(_)
RECURSIVE SeqParams(_)

\* The trainable parameters of one layer.
LayerParams(l) ==
    CASE l.kind = "batchnorm"        -> BatchNormParams(l.in_channels, l.affine)
      [] l.kind = "conv3x3_block"    -> ConvBlockParams(l.in_channels, l.out_channels, 3, 1)
      [] l.kind = "PreResUnit"       -> PreResUnitParams(l)
      [] l.kind = "ResNeXtUnit"      -> ResNeXtUnitParams(l)
      [] l.kind = "PreResActivation" -> BatchNormParams(l.in_channels, TRUE)
      [] l.kind = "stage"            -> SeqParams(l.units)
      [] l.kind = "dense"            -> DenseParams(l.in_channels, l.out_channels)
      [] OTHER                       -> 0

SeqParams(ls) == IF ls = <<>> THEN 0 ELSE LayerParams(Head(ls)) + SeqParams(Tail(ls))

\* A batch is its shape <<n, c, h, w>>; BadShape is a forward pass that raised.
BadShape == <<>>

\* Output size of a convolution or pooling window along one axis.
WindowOut(h, k, s, p) == PyFloorDiv(h + 2 * p - k, s) + 1

\* A layer that maps in_channels to out_channels with a 3x3 window (padding 1)
\* at its stride; the identity branch of a unit yields the same shape.
ConvForward(l, x) ==
    IF x = BadShape \/ x[2] # l.in_channels THEN BadShape
    ELSE <<x[1], l.out_channels, WindowOut(x[3], 3, l.stride, 1), WindowOut(x[4], 3, l.stride, 1)>>

\* A layer that keeps the shape and expects in_channels channels.
NormForward(l, x) == IF x = BadShape \/ x[2] # l.in_channels THEN BadShape ELSE x

\* Average pooling without padding: the window must fit in the map.
PoolForward(l, x) ==
    IF x = BadShape \/ x[3] < l.kernel_size \/ x[4] < l.kernel_size THEN BadShape
    ELSE <<x[1], x[2], WindowOut(x[3], l.kernel_size, l.stride, 0),
           WindowOut(x[4], l.kernel_size, l.stride, 0)>>

RECURSIVE LayerForward(_, _)
RECURSIVE SeqForward(_, _)

LayerForward(l, x) ==
    CASE l.kind = "batchnorm"        -> NormForward(l, x)
      [] l.kind = "PreResActivation" -> NormForward(l, x)
      [] l.kind = "conv3x3_block"    -> ConvForward(l, x)
      [] l.kind = "PreResUnit"       -> ConvForward(l, x)
      [] l.kind = "ResNeXtUnit"      -> ConvForward(l, x)
      [] l.kind = "stage"            -> SeqForward(l.units, x)
      [] l.kind = "avgpool"          -> PoolForward(l, x)
      [] OTHER                       -> BadShape

SeqForward(ls, x) == IF ls = <<>> THEN x ELSE SeqForward(Tail(ls), LayerForward(Head(ls), x))

\* x.view(x.size(0), -1) / nn.Flatten: <<n, c * h * w>>.
Flatten(x) == IF x = BadShape THEN BadShape ELSE <<x[1], x[2] * x[3] * x[4]>>

\* A dense layer accepts only rows of its in_features.
DenseForward(l, x) ==
    IF x = BadShape \/ x[2] # l.in_channels THEN BadShape ELSE <<x[1], l.out_channels>>

----------------------------------------------------------------------------
(* WRN for CIFAR-10 in Gluon (gluon/gluoncv2/models/wrn_cifar10.py). *)

\* Mutant: "or" in place of "and": every unit after the first stage, and the
\* first unit of the first stage, downsample.
GluonWrnStrideOr(i, j) == IF (j = 0) \/ (i # 0) THEN 2 ELSE 1

\* strides = 2 if (j == 0) and (i != 0) else 1, with i and j counted from 0.
GluonWrnStride(i, j) == IF (j = 0) /\ (i # 0) THEN 2 ELSE 1

GluonWrnUnit(i, j, cin, cout) ==
    Layer("PreResUnit", "", cin, cout, GluonWrnStride(i, j))

RECURSIVE GluonWrnUnits(_, _, _, _, _)

\* The loop over enumerate(channels_per_stage), from unit j on: the units
\* added to the stage and the in_channels the loop leaves behind.
GluonWrnUnits(i, channels_per_stage, j, cin, acc) ==
    IF j >= Len(channels_per_stage) THEN [units |-> acc, in_channels |-> cin]
    ELSE LET out_channels == channels_per_stage[j + 1]
         IN  GluonWrnUnits(i, channels_per_stage, j + 1, out_channels,
                           Append(acc, GluonWrnUnit(i, j, cin, out_channels)))

RECURSIVE GluonWrnStages(_, _, _, _)

\* The loop over enumerate(channels), from stage i on.
GluonWrnStages(channels, i, cin, acc) ==
    IF i >= Len(channels) THEN [features |-> acc, in_channels |-> cin]
    ELSE LET st == GluonWrnUnits(i, channels[i + 1], 0, cin, <<>>)
             layer == [Layer("stage", "stage" \o ToString(i + 1) \o "_", 0, 0, 1) EXCEPT !.units = st.units]
         IN  GluonWrnStages(channels, i + 1, st.in_channels, Append(acc, layer))

\* Mutant: the input batch-norm keeps its default center and scale.
GluonWrnInitAffine(c) ==
    << Layer("batchnorm", "", c.in_channels, c.in_channels, 1),
       [Layer("conv3x3_block", "", c.in_channels, c.init_block_channels, 1)
            EXCEPT !.activate = FALSE] >>

\* The layers added before the stages: the input batch-norm without
\* trainable parameters and the initial 3x3 block without activation.
GluonWrnInit(c) ==
    << [Layer("batchnorm", "", c.in_channels, c.in_channels, 1) EXCEPT !.affine = FALSE],
       [Layer("conv3x3_block", "", c.in_channels, c.init_block_channels, 1)
            EXCEPT !.activate = FALSE] >>

\* The layers added after the stages: post-activation and the 8x8 average pool.
GluonWrnTail(cin) ==
    << Layer("PreResActivation", "", cin, cin, 1),
       [Layer("avgpool", "", cin, cin, 1) EXCEPT !.kernel_size = 8] >>

\* CIFAR10WRN.__init__.
GluonCIFAR10WRN(c) ==
    LET body == GluonWrnStages(c.channels, 0, c.init_block_channels, GluonWrnInit(c))
    IN  [features |-> body.features \o GluonWrnTail(body.in_channels),
         output   |-> Layer("dense", "output", body.in_channels, c.num_classes, 1),
         built    |-> TRUE]

\* forward: the features, the flattening, the classifier.
GluonWrnForward(n, x) ==
    LET k        == Len(n.features)
        pool_in  == SeqForward(SubSeq(n.features, 1, k - 1), x)
        pool_out == LayerForward(n.features[k], pool_in)
        flat     == Flatten(pool_out)
    IN  [pool_in |-> pool_in, pool_out |-> pool_out, flat |-> flat,
         y |-> DenseForward(n.output, flat)]

\* The self-test's count: every trainable parameter of the network.
GluonWrnWeightCount(n) == SeqParams(n.features) + LayerParams(n.output)

\* get_wrn: assert ((blocks - 4) % 6 == 0).
GluonWrnBlocksOk(blocks) == PyMod(blocks - 4, 6) = 0

\* layers = [(blocks - 4) // 6] * 3
GluonWrnLayers(blocks) == ListRepeat(PyFloorDiv(blocks - 4, 6), 3)

GluonWrnChannelsPerLayers == <<16, 32, 64>>

GluonWrnInitBlockChannels == 16

\* Mutant: the width factor is left out of the channel counts.
GluonWrnChannelsNoWidth(blocks, width_factor) ==
    LET layers == GluonWrnLayers(blocks)
    IN  [s \in 1..3 |-> ListRepeat(GluonWrnChannelsPerLayers[s], layers[s])]

\* channels = [[ci * width_factor] * li for (ci, li) in zip(channels_per_layers, layers)]
GluonWrnChannels(blocks, width_factor) ==
    LET layers == GluonWrnLayers(blocks)
    IN  [s \in 1..3 |-> ListRepeat(GluonWrnChannelsPerLayers[s] * width_factor, layers[s])]

\* The class's default keyword arguments (the factories pass none of them).
GluonWrnDefaults == [in_channels |-> 3, num_classes |-> 10]

\* get_wrn: net = CIFAR10WRN(channels=channels, init_block_channels=init_block_channels).
GluonGetWrnNet(a) ==
    GluonCIFAR10WRN([channels            |-> GluonWrnChannels(a.blocks, a.width_factor),
                   init_block_channels |-> GluonWrnInitBlockChannels,
                   cardinality         |-> 0,
                   bottleneck_width    |-> 0,
                   in_channels         |-> GluonWrnDefaults.in_channels,
                   num_classes         |-> GluonWrnDefaults.num_classes])

\* The named constructors: each forwards to get_wrn with its own name.
GluonWrnNamed ==
    { [fn |-> "wrn16_10_cifar10", blocks |-> 16, width_factor |-> 10, cardinality |-> 0,
        bottleneck_width |-> 0, model_name |-> "wrn16_10_cifar10"],
      [fn |-> "wrn28_10_cifar10", blocks |-> 28, width_factor |-> 10, cardinality |-> 0,
        bottleneck_width |-> 0, model_name |-> "wrn28_10_cifar10"],
      [fn |-> "wrn40_8_cifar10", blocks |-> 40, width_factor |-> 8, cardinality |-> 0,
        bottleneck_width |-> 0, model_name |-> "wrn40_8_cifar10"] }

----------------------------------------------------------------------------
(* WRN for CIFAR-10 in PyTorch (pytorch/pytorchcv/models/wrn_cifar10.py). *)

\* Mutant: the first unit of every stage downsamples, the first stage included.
TorchWrnStrideEveryStage(i, j) == IF j = 0 THEN 2 ELSE 1

\* strides = 2 if (j == 0) and (i != 0) else 1, with i and j counted from 0.
TorchWrnStride(i, j) == IF (j = 0) /\ (i # 0) THEN 2 ELSE 1

TorchWrnUnit(i, j, cin, cout) ==
    Layer("PreResUnit", "unit" \o ToString(j + 1), cin, cout, TorchWrnStride(i, j))

RECURSIVE TorchWrnUnitsStaleIn(_, _, _, _, _)

\* Mutant: in_channels is not updated after a unit is added.
TorchWrnUnitsStaleIn(i, channels_per_stage, j, cin, acc) ==
    IF j >= Len(channels_per_stage) THEN [units |-> acc, in_channels |-> cin]
    ELSE LET out_channels == channels_per_stage[j + 1]
         IN  TorchWrnUnitsStaleIn(i, channels_per_stage, j + 1, cin,
                                  Append(acc, TorchWrnUnit(i, j, cin, out_channels)))

RECURSIVE TorchWrnUnits(_, _, _, _, _)

\* The loop over enumerate(channels_per_stage), from unit j on: the units
\* added to the stage and the in_channels the loop leaves behind.
TorchWrnUnits(i, channels_per_stage, j, cin, acc) ==
    IF j >= Len(channels_per_stage) THEN [units |-> acc, in_channels |-> cin]
    ELSE LET out_channels == channels_per_stage[j + 1]
         IN  TorchWrnUnits(i, channels_per_stage, j + 1, out_channels,
                           Append(acc, TorchWrnUnit(i, j, cin, out_channels)))

RECURSIVE TorchWrnStages(_, _, _, _)

\* The loop over enumerate(channels), from stage i on.
TorchWrnStages(channels, i, cin, acc) ==
    IF i >= Len(channels) THEN [features |-> acc, in_channels |-> cin]
    ELSE LET st == TorchWrnUnits(i, channels[i + 1], 0, cin, <<>>)
             layer == [Layer("stage", "stage" \o ToString(i + 1), 0, 0, 1) EXCEPT !.units = st.units]
         IN  TorchWrnStages(channels, i + 1, st.in_channels, Append(acc, layer))

\* The layers added before the stages: the input batch-norm without
\* trainable parameters and the initial 3x3 block without activation.
TorchWrnInit(c) ==
    << [Layer("batchnorm", "init_block_pre", c.in_channels, c.in_channels, 1) EXCEPT !.affine = FALSE],
       [Layer("conv3x3_block", "init_block", c.in_channels, c.init_block_channels, 1)
            EXCEPT !.activate = FALSE] >>

\* The layers added after the stages: post-activation and the 8x8 average pool.
TorchWrnTail(cin) ==
    << Layer("PreResActivation", "post_activ", cin, cin, 1),
       [Layer("avgpool", "final_pool", cin, cin, 1) EXCEPT !.kernel_size = 8] >>

\* CIFAR10WRN.__init__.
TorchCIFAR10WRN(c) ==
    LET body == TorchWrnStages(c.channels, 0, c.init_block_channels, TorchWrnInit(c))
    IN  [features |-> body.features \o TorchWrnTail(body.in_channels),
         output   |-> Layer("dense", "output", body.in_channels, c.num_classes, 1),
         built    |-> TRUE]

\* forward: the features, the flattening, the classifier.
TorchWrnForward(n, x) ==
    LET k        == Len(n.features)
        pool_in  == SeqForward(SubSeq(n.features, 1, k - 1), x)
        pool_out == LayerForward(n.features[k], pool_in)
        flat     == Flatten(pool_out)
    IN  [pool_in |-> pool_in, pool_out |-> pool_out, flat |-> flat,
         y |-> DenseForward(n.output, flat)]

\* The self-test's count: every trainable parameter of the network.
TorchWrnWeightCount(n) == SeqParams(n.features) + LayerParams(n.output)

\* get_wrn: assert ((blocks - 4) % 6 == 0).
TorchWrnBlocksOk(blocks) == PyMod(blocks - 4, 6) = 0

\* Mutant: one unit per convolution pair instead of one per six layers.
TorchWrnLayersPerThree(blocks) == ListRepeat(PyFloorDiv(blocks - 4, 3), 3)

\* layers = [(blocks - 4) // 6] * 3
TorchWrnLayers(blocks) == ListRepeat(PyFloorDiv(blocks - 4, 6), 3)

TorchWrnChannelsPerLayers == <<16, 32, 64>>

TorchWrnInitBlockChannels == 16

\* channels = [[ci * width_factor] * li for (ci, li) in zip(channels_per_layers, layers)]
TorchWrnChannels(blocks, width_factor) ==
    LET layers == TorchWrnLayers(blocks)
    IN  [s \in 1..3 |-> ListRepeat(TorchWrnChannelsPerLayers[s] * width_factor, layers[s])]

\* The class's default keyword arguments (the factories pass none of them).
TorchWrnDefaults == [in_channels |-> 3, num_classes |-> 10]

\* get_wrn: net = CIFAR10WRN(channels=channels, init_block_channels=init_block_channels).
TorchGetWrnNet(a) ==
    TorchCIFAR10WRN([channels            |-> TorchWrnChannels(a.blocks, a.width_factor),
                   init_block_channels |-> TorchWrnInitBlockChannels,
                   cardinality         |-> 0,
                   bottleneck_width    |-> 0,
                   in_channels         |-> TorchWrnDefaults.in_channels,
                   num_classes         |-> TorchWrnDefaults.num_classes])

\* Mutant: wrn28_10_cifar10 passes the name of wrn16_10_cifar10.
TorchWrnNamedCopiedName ==
    { [fn |-> "wrn16_10_cifar10", blocks |-> 16, width_factor |-> 10, cardinality |-> 0,
        bottleneck_width |-> 0, model_name |-> "wrn16_10_cifar10"],
      [fn |-> "wrn28_10_cifar10", blocks |-> 28, width_factor |-> 10, cardinality |-> 0,
        bottleneck_width |-> 0, model_name |-> "wrn16_10_cifar10"],
      [fn |-> "wrn40_8_cifar10", blocks |-> 40, width_factor |-> 8, cardinality |-> 0,
        bottleneck_width |-> 0, model_name |-> "wrn40_8_cifar10"] }

\* The named constructors: each forwards to get_wrn with its own name.
TorchWrnNamed ==
    { [fn |-> "wrn16_10_cifar10", blocks |-> 16, width_factor |-> 10, cardinality |-> 0,
        bottleneck_width |-> 0, model_name |-> "wrn16_10_cifar10"],
      [fn |-> "wrn28_10_cifar10", blocks |-> 28, width_factor |-> 10, cardinality |-> 0,
        bottleneck_width |-> 0, model_name |-> "wrn28_10_cifar10"],
      [fn |-> "wrn40_8_cifar10", blocks |-> 40, width_factor |-> 8, cardinality |-> 0,
        bottleneck_width |-> 0, model_name |-> "wrn40_8_cifar10"] }

----------------------------------------------------------------------------
(* ResNeXt for CIFAR-10 in PyTorch (pytorch/pytorchcv/models/resnext_cifar10.py). *)

\* Mutant: only the second stage downsamples.
ResNeXtStrideSecondStage(i, j) == IF (j = 0) /\ (i = 1) THEN 2 ELSE 1

\* stride = 2 if (j == 0) and (i != 0) else 1, with i and j counted from 0.
ResNeXtStride(i, j) == IF (j = 0) /\ (i # 0) THEN 2 ELSE 1

\* Mutant: the unit is built with the default cardinality of ResNeXt.
ResNeXtUnitDefaultCardinality(i, j, cin, cout, cardinality, bottleneck_width) ==
    [Layer("ResNeXtUnit", "unit" \o ToString(j + 1), cin, cout, ResNeXtStride(i, j))
        EXCEPT !.cardinality = 32, !.bottleneck_width = bottleneck_width]

ResNeXtUnit(i, j, cin, cout, cardinality, bottleneck_width) ==
    [Layer("ResNeXtUnit", "unit" \o ToString(j + 1), cin, cout, ResNeXtStride(i, j))
        EXCEPT !.cardinality = cardinality, !.bottleneck_width = bottleneck_width]

RECURSIVE ResNeXtUnits(_, _, _, _, _, _)

\* The loop over enumerate(channels_per_stage), from unit j on.
ResNeXtUnits(c, i, channels_per_stage, j, cin, acc) ==
    IF j >= Len(channels_per_stage) THEN [units |-> acc, in_channels |-> cin]
    ELSE LET out_channels == channels_per_stage[j + 1]
         IN  ResNeXtUnits(c, i, channels_per_stage, j + 1, out_channels,
                          Append(acc, ResNeXtUnit(i, j, cin, out_channels,
                                                  c.cardinality, c.bottleneck_width)))

RECURSIVE ResNeXtStages(_, _, _, _)

\* The loop over enumerate(channels), from stage i on.
ResNeXtStages(c, i, cin, acc) ==
    IF i >= Len(c.channels) THEN [features |-> acc, in_channels |-> cin]
    ELSE LET st == ResNeXtUnits(c, i, c.channels[i + 1], 0, cin, <<>>)
             layer == [Layer("stage", "stage" \o ToString(i + 1), 0, 0, 1)
                          EXCEPT !.units = st.units]
         IN  ResNeXtStages(c, i + 1, st.in_channels, Append(acc, layer))

\* The layer added before the stages: the initial 3x3 block.
ResNeXtInit(c) ==
    << Layer("conv3x3_block", "init_block", c.in_channels, c.init_block_channels, 1) >>

\* The layer added after the stages: the 8x8 average pool.
ResNeXtTail(cin) ==
    << [Layer("avgpool", "final_pool", cin, cin, 1) EXCEPT !.kernel_size = 8] >>

\* CIFAR10ResNeXt.__init__.
CIFAR10ResNeXt(c) ==
    LET body == ResNeXtStages(c, 0, c.init_block_channels, ResNeXtInit(c))
    IN  [features |-> body.features \o ResNeXtTail(body.in_channels),
         output   |-> Layer("dense", "output", body.in_channels, c.num_classes, 1),
         built    |-> TRUE]

\* forward: the features, the flattening, the classifier.
ResNeXtForward(n, x) ==
    LET k        == Len(n.features)
        pool_in  == SeqForward(SubSeq(n.features, 1, k - 1), x)
        pool_out == LayerForward(n.features[k], pool_in)
        flat     == Flatten(pool_out)
    IN  [pool_in |-> pool_in, pool_out |-> pool_out, flat |-> flat,
         y |-> DenseForward(n.output, flat)]

\* _calc_width: every parameter that requires a gradient.
ResNeXtCalcWidth(n) == SeqParams(n.features) + LayerParams(n.output)

\* Mutant: the assertion uses WRN's offset.
ResNeXtBlocksOkWrnOffset(blocks) == PyMod(blocks - 4, 9) = 0

\* get_resnext_cifar10: assert (blocks - 2) % 9 == 0.
ResNeXtBlocksOk(blocks) == PyMod(blocks - 2, 9) = 0

\* layers = [(blocks - 2) // 9] * 3
ResNeXtLayers(blocks) == ListRepeat(PyFloorDiv(blocks - 2, 9), 3)

ResNeXtChannelsPerLayers == <<256, 512, 1024>>

ResNeXtInitBlockChannels == 64

\* channels = [[ci] * li for (ci, li) in zip(channels_per_layers, layers)]
ResNeXtChannels(blocks) ==
    LET layers == ResNeXtLayers(blocks)
    IN  [s \in 1..3 |-> ListRepeat(ResNeXtChannelsPerLayers[s], layers[s])]

\* The class's default keyword arguments (the factory passes none of them).
ResNeXtDefaults == [in_channels |-> 3, num_classes |-> 10]

\* Mutant: cardinality and bottleneck_width are handed over swapped.
GetResNeXtNetSwapped(a) ==
    CIFAR10ResNeXt([channels            |-> ResNeXtChannels(a.blocks),
                    init_block_channels |-> ResNeXtInitBlockChannels,
                    cardinality         |-> a.bottleneck_width,
                    bottleneck_width    |-> a.cardinality,
                    in_channels         |-> ResNeXtDefaults.in_channels,
                    num_classes         |-> ResNeXtDefaults.num_classes])

\* get_resnext_cifar10: net = CIFAR10ResNeXt(channels, init_block_channels,
\* cardinality, bottleneck_width).
GetResNeXtNet(a) ==
    CIFAR10ResNeXt([channels            |-> ResNeXtChannels(a.blocks),
                    init_block_channels |-> ResNeXtInitBlockChannels,
                    cardinality         |-> a.cardinality,
                    bottleneck_width    |-> a.bottleneck_width,
                    in_channels         |-> ResNeXtDefaults.in_channels,
                    num_classes         |-> ResNeXtDefaults.num_classes])

\* The named constructors: each forwards to get_resnext_cifar10 with its own name.
ResNeXtNamed ==
    { [fn |-> "resnext29_32x4d_cifar10", blocks |-> 29, width_factor |-> 0, cardinality |-> 32,
        bottleneck_width |-> 4, model_name |-> "resnext29_32x4d_cifar10"],
      [fn |-> "resnext29_16x64d_cifar10", blocks |-> 29, width_factor |-> 0, cardinality |-> 16,
        bottleneck_width |-> 64, model_name |-> "resnext29_16x64d_cifar10"] }

----------------------------------------------------------------------------
(* The calls. *)

Impls == {"gluon_wrn", "pytorch_wrn", "pytorch_resnext"}

NoArgs == [blocks |-> 0, width_factor |-> 0, cardinality |-> 0, bottleneck_width |-> 0,
           model_name |-> None, pretrained |-> FALSE]

NoClassArgs == [channels |-> <<>>, init_block_channels |-> 0, cardinality |-> 0,
                bottleneck_width |-> 0, in_channels |-> 0, num_classes |-> 0]

NoFwd == [pool_in |-> BadShape, pool_out |-> BadShape, flat |-> BadShape, y |-> BadShape]

\* The self-tests' input batch: (1, 3, 32, 32).
TestInput == <<1, 3, 32, 32>>

\* The blocks values a caller passes to a factory.
Blocks == (0 - MaxNegBlocks)..MaxBlocks

Named(f) ==
    CASE f = "gluon_wrn"       -> GluonWrnNamed
      [] f = "pytorch_wrn"     -> TorchWrnNamed
      [] f = "pytorch_resnext" -> ResNeXtNamed

\* The model names a caller passes to a factory: none, empty, or a stored one.
ModelNames(f) == {None, ""} \cup {n.model_name : n \in Named(f)}

\* The arguments a caller passes to a factory.
FactoryArgs(f) ==
    IF f = "pytorch_resnext"
    THEN [blocks : Blocks, width_factor : {0}, cardinality : 1..MaxCardinality,
          bottleneck_width : 1..MaxBottleneckWidth, model_name : ModelNames(f),
          pretrained : BOOLEAN]
    ELSE [blocks : Blocks, width_factor : 1..MaxWidthFactor, cardinality : {0},
          bottleneck_width : {0}, model_name : ModelNames(f), pretrained : BOOLEAN]

BlocksOk(f, blocks) ==
    CASE f = "gluon_wrn"       -> GluonWrnBlocksOk(blocks)
      [] f = "pytorch_wrn"     -> TorchWrnBlocksOk(blocks)
      [] f = "pytorch_resnext" -> ResNeXtBlocksOk(blocks)

BuildNet(f, a) ==
    CASE f = "gluon_wrn"       -> GluonGetWrnNet(a)
      [] f = "pytorch_wrn"     -> TorchGetWrnNet(a)
      [] f = "pytorch_resnext" -> GetResNeXtNet(a)

\* Gluon asks the store for the file of model_name and loads it into net;
\* PyTorch hands net and model_name to the store's download_model.
StoreCall(f, a) ==
    CASE f = "gluon_wrn"       -> [fn |-> "get_model_file", model_name |-> a.model_name]
      [] f = "pytorch_wrn"     -> [fn |-> "download_model", model_name |-> a.model_name]
      [] f = "pytorch_resnext" -> [fn |-> "download_model", model_name |-> a.model_name]

WeightCount(f, n) ==
    CASE f = "gluon_wrn"       -> GluonWrnWeightCount(n)
      [] f = "pytorch_wrn"     -> TorchWrnWeightCount(n)
      [] f = "pytorch_resnext" -> ResNeXtCalcWidth(n)

ForwardPass(f, n, x) ==
    CASE f = "gluon_wrn"       -> GluonWrnForward(n, x)
      [] f = "pytorch_wrn"     -> TorchWrnForward(n, x)
      [] f = "pytorch_resnext" -> ResNeXtForward(n, x)

Init ==
    /\ pc = "idle"
    /\ entry = "none"
    /\ ctor = ""
    /\ impl = "pytorch_wrn"
    /\ args = NoArgs
    /\ cargs = NoClassArgs
    /\ net = NoNet
    /\ store_calls = <<>>
    /\ loaded = NoNet
    /\ result = "none"
    /\ returned = NoNet
    /\ weight_count = -1
    /\ fwd = NoFwd

\* A named constructor is called: it calls its factory with its own blocks,
\* width (or cardinality and bottleneck width) and name; pretrained is the
\* caller's keyword argument.
NamedCall ==
    /\ pc = "idle"
    /\ \E f \in Impls : \E n \in Named(f), p \in BOOLEAN :
          /\ entry' = "named"
          /\ ctor' = n.fn
          /\ impl' = f
          /\ args' = [blocks |-> n.blocks, width_factor |-> n.width_factor,
                      cardinality |-> n.cardinality, bottleneck_width |-> n.bottleneck_width,
                      model_name |-> n.model_name, pretrained |-> p]
    /\ pc' = "called"
    /\ UNCHANGED <<cargs, net, store_calls, loaded, result, returned, weight_count, fwd>>

\* A factory is called directly.
FactoryCall ==
    /\ pc = "idle"
    /\ \E f \in Impls : \E a \in FactoryArgs(f) :
          /\ entry' = "factory"
          /\ ctor' = ""
          /\ impl' = f
          /\ args' = a
    /\ pc' = "called"
    /\ UNCHANGED <<cargs, net, store_calls, loaded, result, returned, weight_count, fwd>>

\* The factory's assertion on blocks fails.
AssertFail ==
    /\ pc = "called"
    /\ ~BlocksOk(impl, args.blocks)
    /\ result' = "AssertionError"
    /\ pc' = "done"
    /\ UNCHANGED <<cargs, entry, ctor, impl, args, net, store_calls, loaded, returned,
                   weight_count, fwd>>

\* The assertion passes: the channel lists are computed and the class builds net.
Construct ==
    /\ pc = "called"
    /\ BlocksOk(impl, args.blocks)
    /\ net' = BuildNet(impl, args)
    /\ pc' = "built"
    /\ UNCHANGED <<cargs, entry, ctor, impl, args, store_calls, loaded, result, returned,
                   weight_count, fwd>>

\* if pretrained: if (model_name is None) or (not model_name): raise ValueError(...)
RaiseValueError ==
    /\ pc = "built"
    /\ args.pretrained
    /\ NameMissing(args.model_name)
    /\ result' = "ValueError"
    /\ pc' = "done"
    /\ UNCHANGED <<cargs, entry, ctor, impl, args, net, store_calls, loaded, returned,
                   weight_count, fwd>>

\* if pretrained, with a model name: the model store is invoked and the
\* weights are loaded into net.
DownloadModel ==
    /\ pc = "built"
    /\ args.pretrained
    /\ ~NameMissing(args.model_name)
    /\ store_calls' = Append(store_calls, StoreCall(impl, args))
    /\ loaded' = net
    /\ pc' = "downloaded"
    /\ UNCHANGED <<cargs, entry, ctor, impl, args, net, result, returned, weight_count, fwd>>

\* return net
ReturnNet ==
    /\ \/ pc = "built" /\ ~args.pretrained
       \/ pc = "downloaded"
    /\ returned' = net
    /\ result' = "net"
    /\ pc' = "returned"
    /\ UNCHANGED <<cargs, entry, ctor, impl, args, net, store_calls, loaded, weight_count, fwd>>

\* The self-test counts the trainable parameters of the returned network.
CalcWidth ==
    /\ pc = "returned"
    /\ weight_count' = WeightCount(impl, returned)
    /\ pc' = "counted"
    /\ UNCHANGED <<cargs, entry, ctor, impl, args, net, store_calls, loaded, result, returned, fwd>>

\* The self-test feeds its batch through the returned network.
Forward ==
    /\ pc = "counted"
    /\ fwd' = ForwardPass(impl, returned, TestInput)
    /\ pc' = "done"
    /\ UNCHANGED <<cargs, entry, ctor, impl, args, net, store_calls, loaded, result, returned,
                   weight_count>>

Next ==
    \/ NamedCall
    \/ FactoryCall
    \/ AssertFail
    \/ Construct
    \/ RaiseValueError
    \/ DownloadModel
    \/ ReturnNet
    \/ CalcWidth
    \/ Forward

Spec == Init /\ [][Next]_vars

----------------------------------------------------------------------------
(* A model class called by itself, with a channels list of the caller's. *)

\* The lists of at most n elements of S.
ListsUpTo(S, n) == UNION {[1..k -> S] : k \in 0..n}

\* The output channel counts a caller gives to a unit.
ChannelValues == {64, 128}

\* channels: a list (of stages) of lists (of units) of output channel counts.
ChannelLists == ListsUpTo(ListsUpTo(ChannelValues, MaxUnits), MaxStages)

\* The arguments a caller passes to a model class: the defaults of the
\* factories, or a one-channel input with 100 classes and a wider initial
\* block; CIFAR10ResNeXt also takes cardinality and bottleneck_width.
ClassArgs(f) ==
    [channels : ChannelLists, init_block_channels : {16}, in_channels : {3},
     num_classes : {10}, cardinality : {IF f = "pytorch_resnext" THEN 32 ELSE 0},
     bottleneck_width : {IF f = "pytorch_resnext" THEN 4 ELSE 0}]
    \cup
    [channels : ChannelLists, init_block_channels : {64}, in_channels : {1},
     num_classes : {100}, cardinality : {IF f = "pytorch_resnext" THEN 32 ELSE 0},
     bottleneck_width : {IF f = "pytorch_resnext" THEN 4 ELSE 0}]

ClassNet(f, c) ==
    CASE f = "gluon_wrn"       -> GluonCIFAR10WRN(c)
      [] f = "pytorch_wrn"     -> TorchCIFAR10WRN(c)
      [] f = "pytorch_resnext" -> CIFAR10ResNeXt(c)

\* CIFAR10WRN(...) or CIFAR10ResNeXt(...) is called and returns the network.
ClassCall ==
    /\ pc = "idle"
    /\ \E f \in Impls : \E c \in ClassArgs(f) :
          /\ entry' = "class"
          /\ impl' = f
          /\ cargs' = c
          /\ net' = ClassNet(f, c)
          /\ returned' = net'
    /\ result' = "net"
    /\ pc' = "returned"
    /\ UNCHANGED <<ctor, args, store_calls, loaded, weight_count, fwd>>

NextClass == ClassCall

SpecClass == Init /\ [][NextClass]_vars

----------------------------------------------------------------------------
(* What the claims read off a network. *)

IsWrn == impl \in {"gluon_wrn", "pytorch_wrn"}

\* The stages among the features, in order.
StagesOf(n) == SelectSeq(n.features, LAMBDA l : l.kind = "stage")

\* The layers among the features of one kind, in order.
LayersOfKind(n, kind) == SelectSeq(n.features, LAMBDA l : l.kind = kind)

\* A layer without the names a framework gives it and its sub-layers.
Unnamed(l) == [l EXCEPT !.name = "", !.units = [k \in 1..Len(l.units) |-> [l.units[k] EXCEPT !.name = ""]]]

\* The topology of a network: its layers in order, names dropped.
Topology(n) == [features |-> [k \in 1..Len(n.features) |-> Unnamed(n.features[k])],
                output   |-> Unnamed(n.output)]

\* The self-test has counted the parameters of the returned network.
Counted == weight_count # -1

\* The self-test has run its forward pass.
Forwarded == pc = "done" /\ result = "net"

\* A named constructor was called with its default arguments.
NamedDefault == entry = "named" /\ ~args.pretrained

----------------------------------------------------------------------------
(* The claims. *)

\* C1: with pretrained=False and default arguments, the networks built by
\* wrn16_10_cifar10, wrn28_10_cifar10 and wrn40_8_cifar10 have exactly 17116666,
\* 36479226 and 35748346 trainable parameters, in Gluon and in PyTorch alike,
\* and the input batch-norm contributes none of them.
C1_WrnParameterCounts ==
    (NamedDefault /\ IsWrn /\ Counted) =>
        /\ ctor = "wrn16_10_cifar10" => weight_count = 17116666
        /\ ctor = "wrn28_10_cifar10" => weight_count = 36479226
        /\ ctor = "wrn40_8_cifar10"  => weight_count = 35748346
        /\ returned.features[1].kind = "batchnorm"
        /\ LayerParams(returned.features[1]) = 0

C1_Witness ==
    /\ NamedDefault /\ impl = "gluon_wrn" /\ ctor = "wrn40_8_cifar10"
    /\ Counted /\ weight_count = 35748346

\* C2: with pretrained=False and default arguments, the networks built by
\* resnext29_32x4d_cifar10 and resnext29_16x64d_cifar10 have exactly 4775754 and
\* 68155210 trainable parameters.
C2_ResNeXtParameterCounts ==
    (NamedDefault /\ impl = "pytorch_resnext" /\ Counted) =>
        /\ ctor = "resnext29_32x4d_cifar10" =>
              /\ args.blocks = 29 /\ args.cardinality = 32 /\ args.bottleneck_width = 4
              /\ weight_count = 4775754
        /\ ctor = "resnext29_16x64d_cifar10" =>
              /\ args.blocks = 29 /\ args.cardinality = 16 /\ args.bottleneck_width = 64
              /\ weight_count = 68155210

C2_Witness ==
    /\ NamedDefault /\ impl = "pytorch_resnext" /\ ctor = "resnext29_16x64d_cifar10"
    /\ Counted /\ weight_count = 68155210

\* C3: each named constructor, called with default arguments, maps a batch of
\* shape (1, 3, 32, 32) to an output of shape (1, 10): the map entering the
\* final 8x8 stride-1 average pool is 8x8, the pooled map is 1x1, and the
\* flattened length equals the classifier's input width.
C3_NamedOutputShape ==
    (NamedDefault /\ Forwarded) =>
        LET pool == returned.features[Len(returned.features)]
        IN  /\ pool.kind = "avgpool" /\ pool.kernel_size = 8 /\ pool.stride = 1
            /\ fwd.pool_in # BadShape
            /\ fwd.pool_in[3] = 8 /\ fwd.pool_in[4] = 8
            /\ fwd.pool_out # BadShape
            /\ fwd.pool_out[3] = 1 /\ fwd.pool_out[4] = 1
            /\ fwd.flat = <<1, returned.output.in_channels>>
            /\ fwd.y = <<1, 10>>

C3_Witness ==
    /\ NamedDefault /\ Forwarded /\ ctor = "resnext29_32x4d_cifar10"
    /\ fwd.pool_in = <<1, 1024, 8, 8>> /\ fwd.y = <<1, 10>>

\* C4: get_wrn builds a network only when (blocks - 4) % 6 == 0 and
\* get_resnext_cifar10 only when (blocks - 2) % 9 == 0; for any other blocks the
\* call fails with an assertion error, with no layer constructed, the model
\* store never contacted and no network returned.
C4_BlocksAssertion ==
    LET accepted == IF IsWrn THEN (args.blocks - 4) % 6 = 0 ELSE (args.blocks - 2) % 9 = 0
    IN  (entry # "none") =>
            /\ net.built => accepted
            /\ ~accepted =>
                  /\ net = NoNet /\ net.features = <<>>
                  /\ store_calls = <<>> /\ loaded = NoNet
                  /\ returned = NoNet
                  /\ result \in {"none", "AssertionError"}
                  /\ pc # "called" => (pc = "done" /\ result = "AssertionError")

C4_Witness ==
    /\ entry = "factory" /\ impl = "pytorch_resnext" /\ args.blocks = 10
    /\ args.pretrained /\ pc = "done" /\ result = "AssertionError"

\* C5: for every blocks and width_factor, the Gluon and the PyTorch get_wrn
\* accept or reject alike and, when they accept, build the same topology (the
\* same layers in the same order, with the same channels and strides per unit)
\* and so the same number of trainable parameters.
C5_FrameworkParity ==
    (entry # "none" /\ IsWrn) =>
        LET other == IF impl = "gluon_wrn" THEN "pytorch_wrn" ELSE "gluon_wrn"
        IN  /\ (pc # "called") =>
                  ((result = "AssertionError") <=> ~BlocksOk(other, args.blocks))
            /\ net.built =>
                  /\ BlocksOk(other, args.blocks)
                  /\ Topology(net) = Topology(BuildNet(other, args))
                  /\ WeightCount(impl, net) = WeightCount(other, BuildNet(other, args))
                  /\ [k \in 1..Len(net.features) |-> net.features[k].kind]
                       = <<"batchnorm", "conv3x3_block", "stage", "stage", "stage",
                           "PreResActivation", "avgpool">>
                  /\ ~net.features[1].affine
                  /\ net.output.kind = "dense"

C5_Witness ==
    /\ entry = "factory" /\ impl = "gluon_wrn" /\ args.blocks = 16 /\ args.width_factor = 2
    /\ net.built /\ Len(StagesOf(net)[2].units) = 2
    /\ Topology(net) = Topology(TorchGetWrnNet(args))

\* C6: in each factory, a call with pretrained=True and model_name None or
\* empty raises ValueError, never invokes the model store and returns no network.
\* (As stated, for every such call whatever its blocks.)
C6_MissingNameAlwaysValueError ==
    (entry # "none" /\ args.pretrained /\ args.model_name \in {None, ""}) =>
        /\ store_calls = <<>>
        /\ returned = NoNet
        /\ pc = "done" => result = "ValueError"

\* C6, amended: in each factory, a call with pretrained=True and model_name None
\* or empty never invokes the model store and returns no network; it raises
\* ValueError when its blocks value passes the factory's assertion, after the
\* network has been built, and AssertionError otherwise.
C6_MissingNameRaises ==
    LET accepted == IF IsWrn THEN (args.blocks - 4) % 6 = 0 ELSE (args.blocks - 2) % 9 = 0
    IN  (entry # "none" /\ args.pretrained /\ args.model_name \in {None, ""}) =>
            /\ store_calls = <<>> /\ loaded = NoNet
            /\ returned = NoNet
            /\ pc \in {"called", "built", "done"}
            /\ result \in {"none", "ValueError", "AssertionError"}
            /\ pc = "done" => result = (IF accepted THEN "ValueError" ELSE "AssertionError")
            /\ result = "ValueError" => net.built

C6_Witness ==
    /\ entry = "factory" /\ impl = "gluon_wrn" /\ args.pretrained /\ args.model_name = ""
    /\ args.blocks = 10 /\ pc = "done" /\ result = "ValueError" /\ net.built
    /\ store_calls = <<>>

\* C7: in every call of a named constructor the model store is invoked at most
\* once, only with pretrained true, only after the network has been completely
\* constructed, with the constructor's own function name as model name; the
\* network returned is the one the weights were loaded into; the weights are
\* loaded if and only if pretrained is true.
C7_PretrainedLoading ==
    (entry = "named") =>
        /\ Len(store_calls) <= 1
        /\ result \in {"none", "net"}
        /\ ~args.pretrained => (store_calls = <<>> /\ loaded = NoNet)
        /\ store_calls # <<>> =>
              /\ args.pretrained
              /\ net.built
              /\ net.features[Len(net.features)].kind = "avgpool"
              /\ net.output.kind = "dense"
              /\ store_calls[1].model_name = ctor
              /\ loaded = net
        /\ result = "net" =>
              /\ returned = net /\ net.built
              /\ (Len(store_calls) = 1) <=> args.pretrained
              /\ (loaded # NoNet) <=> args.pretrained
              /\ args.pretrained => loaded = returned

C7_Witness ==
    /\ entry = "named" /\ ctor = "wrn28_10_cifar10" /\ impl = "pytorch_wrn"
    /\ args.pretrained /\ result = "net" /\ loaded = returned
    /\ store_calls = << [fn |-> "download_model", model_name |-> "wrn28_10_cifar10"] >>

\* What C8 says of a network of n units per stage.
WrnLayout(n) ==
    LET st == StagesOf(net)
    IN  /\ Len(st) = 3
        /\ \A s \in 1..Len(st) :
              /\ Len(st[s].units) = n
              /\ \A k \in 1..Len(st[s].units) :
                    /\ st[s].units[k].kind = "PreResUnit"
                    /\ st[s].units[k].out_channels
                         = (CASE s = 1 -> 16 [] s = 2 -> 32 [] OTHER -> 64) * args.width_factor
        /\ Len(LayersOfKind(net, "conv3x3_block")) = 1
        /\ LayersOfKind(net, "conv3x3_block")[1].out_channels = 16

\* C8: for every blocks accepted by get_wrn and every width_factor >= 1, the
\* network has exactly 3 stages of exactly (blocks - 4) / 6 residual units each,
\* of 16, 32 and 64 times width_factor output channels, and a 16-channel
\* initial block. (As stated, for every accepted blocks.)
C8_WrnLayoutEveryBlocks ==
    (entry # "none" /\ IsWrn /\ net.built) => WrnLayout((args.blocks - 4) \div 6)

\* C8, amended: the same, with max(0, (blocks - 4) / 6) units per stage: an
\* accepted blocks below 4 gives three empty stages.
C8_WrnLayout ==
    (entry # "none" /\ IsWrn /\ net.built) =>
        /\ args.width_factor >= 1
        /\ WrnLayout(IF args.blocks >= 4 THEN (args.blocks - 4) \div 6 ELSE 0)

C8_Witness ==
    /\ entry = "factory" /\ impl = "pytorch_wrn" /\ args.blocks = 22 /\ args.width_factor = 3
    /\ net.built /\ Len(StagesOf(net)[3].units) = 3
    /\ StagesOf(net)[3].units[3].out_channels = 192

\* What C9 says of a network of n units per stage.
ResNeXtLayout(n) ==
    LET st == StagesOf(net)
    IN  /\ Len(st) = 3
        /\ \A s \in 1..Len(st) :
              /\ Len(st[s].units) = n
              /\ \A k \in 1..Len(st[s].units) :
                    /\ st[s].units[k].kind = "ResNeXtUnit"
                    /\ st[s].units[k].out_channels
                         = (CASE s = 1 -> 256 [] s = 2 -> 512 [] OTHER -> 1024)
                    /\ st[s].units[k].cardinality = args.cardinality
                    /\ st[s].units[k].bottleneck_width = args.bottleneck_width
        /\ Len(LayersOfKind(net, "conv3x3_block")) = 1
        /\ LayersOfKind(net, "conv3x3_block")[1].out_channels = 64

\* C9: for every blocks accepted by get_resnext_cifar10, the network has exactly
\* 3 stages of exactly (blocks - 2) / 9 ResNeXt units each, of 256, 512 and 1024
\* output channels, and a 64-channel initial block, whatever the cardinality
\* and bottleneck_width, which reach every unit unchanged. (As stated, for
\* every accepted blocks.)
C9_ResNeXtLayoutEveryBlocks ==
    (entry # "none" /\ impl = "pytorch_resnext" /\ net.built) =>
        ResNeXtLayout((args.blocks - 2) \div 9)

\* C9, amended: the same, with max(0, (blocks - 2) / 9) units per stage: an
\* accepted blocks below 2 gives three empty stages.
C9_ResNeXtLayout ==
    (entry # "none" /\ impl = "pytorch_resnext" /\ net.built) =>
        ResNeXtLayout(IF args.blocks >= 2 THEN (args.blocks - 2) \div 9 ELSE 0)

C9_Witness ==
    /\ entry = "factory" /\ impl = "pytorch_resnext" /\ args.blocks = 20
    /\ args.cardinality = 2 /\ args.bottleneck_width = 1
    /\ net.built /\ Len(StagesOf(net)[2].units) = 2
    /\ StagesOf(net)[2].units[1].cardinality = 2

\* What C10 says of a forward pass.
OutputShapeOk ==
    /\ fwd.pool_out # BadShape
    /\ fwd.flat = <<1, returned.output.in_channels>>
    /\ fwd.y = <<1, 10>>

\* C10: for every accepted blocks (and every width_factor >= 1 for WRN) the
\* network maps a batch of shape (1, 3, 32, 32) to an output of shape (1, 10):
\* the flattened output of the final pool has as many elements per sample as
\* the classifier's input width. (As stated, for every accepted blocks.)
C10_OutputShapeEveryBlocks ==
    (entry # "none" /\ Forwarded) => OutputShapeOk

\* C10, amended: the same for every accepted blocks that gives each stage at
\* least one unit (blocks >= 10 for get_wrn, blocks >= 11 for
\* get_resnext_cifar10).
C10_OutputShape ==
    (entry # "none" /\ Forwarded /\ args.blocks >= (IF IsWrn THEN 10 ELSE 11)) =>
        OutputShapeOk

C10_Witness ==
    /\ entry = "factory" /\ impl = "pytorch_wrn" /\ args.blocks = 10 /\ args.width_factor = 1
    /\ Forwarded /\ fwd.pool_in = <<1, 64, 8, 8>> /\ fwd.y = <<1, 10>>

RECURSIVE Concat(_)

\* The lists of a list, joined in order.
Concat(ls) == IF ls = <<>> THEN <<>> ELSE Head(ls) \o Concat(Tail(ls))

\* The units of a network in the order they were built, across the stages.
AllUnits(n) == Concat([s \in 1..Len(StagesOf(n)) |-> StagesOf(n)[s].units])

\* A model class was called by itself and has built its network.
ClassBuilt == entry = "class" /\ net.built

\* C11: in every network built by CIFAR10WRN or CIFAR10ResNeXt from any channels
\* list, a unit has stride 2 exactly when it is the first unit of a stage other
\* than the first, and stride 1 otherwise; so the stride-2 units are as many as
\* the non-empty stages after the first, and no unit of stage 1 downsamples.
C11_StrideTwoAtStageStarts ==
    ClassBuilt =>
        LET st == StagesOf(net)
            twos == {p \in (1..Len(st)) \X (1..MaxUnits + 1) :
                        p[2] <= Len(st[p[1]].units) /\ st[p[1]].units[p[2]].stride = 2}
        IN  /\ Len(st) = Len(cargs.channels)
            /\ \A s \in 1..Len(st) :
                  /\ Len(st[s].units) = Len(cargs.channels[s])
                  /\ \A k \in 1..Len(st[s].units) :
                        /\ st[s].units[k].stride \in {1, 2}
                        /\ (st[s].units[k].stride = 2) <=> (k = 1 /\ s # 1)
            /\ Cardinality(twos)
                 = Cardinality({s \in 2..Len(cargs.channels) : cargs.channels[s] # <<>>})
            /\ Len(st) >= 1 => \A k \in 1..Len(st[1].units) : st[1].units[k].stride = 1

C11_Witness ==
    /\ ClassBuilt /\ impl = "gluon_wrn"
    /\ cargs.channels = << <<64, 64>>, <<>>, <<128, 128>> >>
    /\ StagesOf(net)[1].units[1].stride = 1
    /\ StagesOf(net)[3].units[1].stride = 2
    /\ StagesOf(net)[3].units[2].stride = 1

\* C12: in every network built by CIFAR10WRN or CIFAR10ResNeXt from any channels
\* list, the initial block maps the given in_channels to init_block_channels,
\* each unit takes as many channels as the unit built before it gives (across
\* stage boundaries; init_block_channels for the very first unit), the
\* classifier takes as many as the last unit built gives (init_block_channels
\* when there is no unit) and gives the requested number of classes.
C12_ChannelConsistency ==
    ClassBuilt =>
        LET us   == AllUnits(net)
            chs  == Concat(cargs.channels)
            init == LayersOfKind(net, "conv3x3_block")
        IN  /\ Len(init) = 1
            /\ init[1].in_channels = cargs.in_channels
            /\ init[1].out_channels = cargs.init_block_channels
            /\ Len(us) = Len(chs)
            /\ \A k \in 1..Len(us) :
                  /\ us[k].out_channels = chs[k]
                  /\ us[k].in_channels
                       = (IF k = 1 THEN cargs.init_block_channels ELSE us[k - 1].out_channels)
            /\ net.output.kind = "dense"
            /\ net.output.in_channels
                 = (IF us = <<>> THEN cargs.init_block_channels ELSE us[Len(us)].out_channels)
            /\ net.output.out_channels = cargs.num_classes

C12_Witness ==
    /\ ClassBuilt /\ impl = "pytorch_resnext"
    /\ cargs.in_channels = 1 /\ cargs.num_classes = 100
    /\ cargs.channels = << <<64, 128>>, <<>>, <<64>> >>
    /\ AllUnits(net)[3].in_channels = 128
    /\ net.output.in_channels = 64 /\ net.output.out_channels = 100

====
